---- MODULE Spec2Model ----
(***************************************************************************)
(* Video upload handlers of file-storage-s3-ts: the ingest pipeline        *)
(* (handlerUploadVideo with fast-start remux and orientation probe), the   *)
(* direct-to-S3 variant of the same handler (src/api/videos.ts) and the    *)
(* two media-tool wrappers of src/utils/video.ts.                          *)
(*                                                                         *)
(* Strings are modelled as sequences of tokens, so that template literals  *)
(* and path.join are sequence concatenation and two strings are equal      *)
(* exactly when they are built from the same pieces.                       *)
(***************************************************************************)
EXTENDS Integers, Sequences, FiniteSets, TLC

\* ------------------------------------------------------------------ bounds

\* Largest width/height of the dense grid of probe results (SpecClassify).
MaxDim == 16

\* Most chunks a child writes to its two pipes before it exits (SpecTool).
MaxWrites == 3

\* Chunks a pipe holds before a further write blocks the child (SpecTool).
PipeCapacity == 1

\* ------------------------------------------------------------ JS primitives

\* null / undefined, by the type of what may be absent: a scalar, a string (a
\* sequence of tokens) or an object.
NULL == "null"
NoString == <<>>
Undefined == [undefined |-> TRUE]

Abs(x) == IF x < 0 THEN -x ELSE x

\* 2^30: the largest power of two whose double is still a 32-bit integer.
Two30 == 1024 * 1024 * 1024

\* 2 * x wrapped to a signed 32-bit integer, for x a signed 32-bit integer.
Double32(x) ==
    IF x >= Two30 THEN ((2 * (x - Two30)) - Two30) - Two30
    ELSE IF x < -Two30 THEN ((2 * (x + Two30)) + Two30) + Two30
    ELSE 2 * x

\* JavaScript's a << n on 32-bit integers: n % 32 doublings, each wrapped.
RECURSIVE ShiftLeft32(_, _)
ShiftLeft32(a, n) ==
    IF n % 32 = 0 THEN a ELSE Double32(ShiftLeft32(a, (n % 32) - 1))

\* new Error(message) and the handler's error classes.
Err(name, message) == [name |-> name, message |-> message]

\* A completion of a block: a returned value or a thrown error.
Return(v) == [ok |-> TRUE, value |-> v]
Throw(e) == [ok |-> FALSE, error |-> e]

\* ----------------------------------------------- src/utils/video.ts: ffprobe

\* One entry of "streams" in ffprobe's JSON: an object that holds "width" and
\* "height" or lacks either.
Stream(hasW, w, hasH, h) ==
    [k \in (IF hasW THEN {"width"} ELSE {}) \cup (IF hasH THEN {"height"} ELSE {})
        |-> IF k = "width" THEN w ELSE h]

\* What the child wrote to stdout: text that is no JSON, or the parsed object,
\* which holds "streams" (a list) or lacks it.
NotJSON == [json |-> FALSE]
JSONNoStreams == [json |-> TRUE, data |-> [k \in {} |-> <<>>]]
JSONStreams(ss) == [json |-> TRUE, data |-> [k \in {"streams"} |-> ss]]

\* Math.abs(w / h - num / den) < 0.1 in exact arithmetic is
\* 10 * |den * w - num * h| < den * h.  The code compares doubles: for integer
\* dimensions the two agree except where the difference is exactly 0.1, where
\* rounding decides (151/90 and 53/80 compare as inside, 169/90 as outside);
\* `tie` stands for rounding's decision there.
WithinTolerance(w, h, num, den, tie) ==
    \/ 10 * Abs(den * w - num * h) < den * h
    \/ tie /\ 10 * Abs(den * w - num * h) = den * h

\* Variant: the first branch tested against the portrait ratio.
ReturnLandscapeNearPortraitRatio(w, h, tie) == WithinTolerance(w, h, 9, 16, tie)
\* The first branch tests the landscape ratio 16/9.
ReturnLandscapeNear(w, h, tie) == WithinTolerance(w, h, 16, 9, tie)

\* The second branch tests the portrait ratio 9/16.
ReturnPortraitNear(w, h, tie) == WithinTolerance(w, h, 9, 16, tie)

\* Variant: aspectRatio >= 1.
RatioAboveOneOrEqual(w, h) == w >= h
\* aspectRatio > 1 with aspectRatio = width / height, height > 0.
RatioAboveOne(w, h) == w > h

\* The four-branch classification, lines 43-65.
Orientation(w, h, tie) ==
    IF ReturnLandscapeNear(w, h, tie) THEN "landscape"
    ELSE IF ReturnPortraitNear(w, h, tie) THEN "portrait"
    ELSE IF RatioAboveOne(w, h) THEN "landscape"
    ELSE "portrait"

\* Variant: the exit code is not looked at.
ExitFailedNever(exitCode) == FALSE
\* if (exitCode !== 0): the guard of line 29 (and of line 102 for ffmpeg).
ExitFailed(exitCode) == exitCode # 0

\* getVideoAspectRatio once the child has exited: its completion from the exit
\* code and the two captured streams.
getVideoAspectRatio(exitCode, stderr, stdout, tie) ==
    IF ExitFailed(exitCode)
    THEN Throw(Err("Error", <<"ffprobe failed with exit code ", ToString(exitCode), ": ">> \o stderr))
    ELSE IF ~stdout.json
    THEN Throw(Err("SyntaxError", <<"JSON Parse error">>))
    ELSE IF "streams" \notin DOMAIN stdout.data
    THEN Throw(Err("TypeError", <<"undefined is not an object (evaluating 'data.streams[0]')">>))
    ELSE LET streams == stdout.data["streams"]
         IN  IF \/ Len(streams) = 0
                \/ "width" \notin DOMAIN streams[1]
                \/ streams[1]["width"] = 0
                \/ "height" \notin DOMAIN streams[1]
                \/ streams[1]["height"] = 0
             THEN Throw(Err("Error", <<"Could not get video dimensions">>))
             ELSE Return(Orientation(streams[1]["width"], streams[1]["height"], tie))

\* ------------------------------------------------ src/utils/video.ts: ffmpeg

\* The output written over the input: no suffix.
OutputFilePathInPlace(inputFilePath) == inputFilePath

\* An output path that does not depend on the input: every run writes there.
OutputFilePathShared(inputFilePath) == <<"/tmp", "/", "output.processed">>

\* const outputFilePath = inputFilePath + ".processed"
OutputFilePath(inputFilePath) == inputFilePath \o <<".processed">>

\* The normalizer without the check of lines 102-104: the output path is
\* returned whatever the exit code.
processVideoForFastStartUnchecked(inputFilePath, exitCode, stderr) ==
    Return(OutputFilePath(inputFilePath))

\* processVideoForFastStart once the child has exited.
processVideoForFastStart(inputFilePath, exitCode, stderr) ==
    IF ExitFailed(exitCode)
    THEN Throw(Err("Error", <<"ffmpeg failed with exit code ", ToString(exitCode), ": ">> \o stderr))
    ELSE Return(OutputFilePath(inputFilePath))

\* ------------------------------------------------------ the handlers' world

\* Concurrent requests, each one run of a handler.
Runs == {"r1", "r2"}

\* The two definitions of handlerUploadVideo: the ingest pipeline (remux, probe,
\* keyed by orientation) and the variant of src/api/videos.ts (raw upload to S3).
Handlers == {"pipeline", "direct"}

\* randomBytes(32).toString("hex"): 256 random bits, so two runs never draw the
\* same name.
RandomNames == {"9f3c", "e71b"}

\* const MAX_UPLOAD_SIZE = 1 << 30
MAX_UPLOAD_SIZE == ShiftLeft32(1, 30)

\* The form's "video" entry: a File with its declared size and type, or a plain
\* string field.
NotAFile == [isFile |-> FALSE]
Sizes == {1, MAX_UPLOAD_SIZE, MAX_UPLOAD_SIZE + 1}
MediaTypes == {"video/mp4", "video/webm"}
Files == [isFile : {TRUE}, size : Sizes, type : MediaTypes]

\* The request line and headers: the route's videoId (or none), the bearer token
\* ("bad": missing, malformed or expired; otherwise the user it was issued to).
Requests == [videoId : {NULL, "v1", "v0"}, token : {"bad", "alice", "bob"}]

\* cfg
s3CfDistribution == <<"https://cdn.example.net">>
s3Bucket == <<"bucket">>
s3Region == <<"eu-west-1">>

\* The videos table as the run finds it: one video, owned by alice.
InitDB ==
    [id \in {"v1"} |->
        [id |-> id, userID |-> "alice", videoURL |-> NoString,
         thumbnailURL |-> NoString]]

\* What a child process reports on exit.
ExitCodes == {0, 1}
StderrTexts == {<<>>, <<"invalid data found">>}

\* What ffprobe prints for the handler's runs.
HandlerProbeOutputs ==
    { NotJSON, JSONNoStreams, JSONStreams(<<>>),
      JSONStreams(<<Stream(TRUE, 1920, FALSE, 0)>>),
      JSONStreams(<<Stream(TRUE, 1920, TRUE, 1080)>>),
      JSONStreams(<<Stream(TRUE, 1080, TRUE, 1920)>>),
      JSONStreams(<<Stream(TRUE, 640, TRUE, 640)>>) }

\* ------------------------------------------------------------ collaborators

\* validateJWT(getBearerToken(req.headers), cfg.jwtSecret)
validateJWT(token) ==
    IF token = "bad"
    THEN Throw(Err("UserNotAuthenticatedError", <<"Invalid token">>))
    ELSE Return(token)

\* getVideo(cfg.db, videoId): the record, or undefined.
getVideo(database, videoId) ==
    IF videoId \in DOMAIN database THEN database[videoId] ELSE Undefined

\* updateVideo(cfg.db, video)
updateVideo(database, video) == [database EXCEPT ![video.id] = video]

\* respondWithJSON(200, payload)
respondWithJSON(status, payload) == [status |-> status, body |-> payload]

\* The file system: path -> contents.
WriteFile(d, path, data) ==
    [p \in DOMAIN d \cup {path} |-> IF p = path THEN data ELSE d[p]]
RemoveFile(d, path) == [p \in DOMAIN d \ {path} |-> d[p]]
NoFiles == [p \in {} |-> NoString]

\* ------------------------------------------------- handlerUploadVideo: checks

\* Every caller taken for the owner.
NotOwnerNever(video, userID) == FALSE

\* if (video.userID !== userID): line 30, and thumbnails.ts line 65.
NotOwner(video, userID) == video.userID # userID

\* Lines 14-32: the checks made before the body is read.
CheckRequest(q, database) ==
    IF q.videoId = NULL
    THEN Throw(Err("BadRequestError", <<"Invalid video ID">>))
    ELSE LET auth == validateJWT(q.token)
         IN  IF ~auth.ok THEN auth
             ELSE LET video == getVideo(database, q.videoId)
                  IN  IF video = Undefined
                      THEN Throw(Err("NotFoundError", <<"Video not found">>))
                      ELSE IF NotOwner(video, auth.value)
                      THEN Throw(Err("UserForbiddenError",
                                     <<"You are not the owner of this video">>))
                      ELSE Return(video)

\* Variant: size >= MAX_UPLOAD_SIZE.
TooLargeInclusive(size) == size >= MAX_UPLOAD_SIZE
\* if (videoFile.size > MAX_UPLOAD_SIZE)
TooLarge(size) == size > MAX_UPLOAD_SIZE

\* Lines 36-49: the checks on the "video" entry of the form.
ValidateFile(videoFile) ==
    IF ~videoFile.isFile
    THEN Throw(Err("BadRequestError", <<"Video must be a file">>))
    ELSE IF TooLarge(videoFile.size)
    THEN Throw(Err("BadRequestError", <<"Video file is too large">>))
    ELSE IF videoFile.type # "video/mp4"
    THEN Throw(Err("BadRequestError", <<"Video must be an MP4 file">>))
    ELSE Return(videoFile)

\* const fileName = `${randomFileName}.mp4`
FileName(randomFileName) == <<randomFileName, ".mp4">>

\* path.join("/tmp", fileName)
TempFilePath(fileName) == <<"/tmp", "/">> \o fileName

\* Variant: the key without its orientation prefix.
S3KeyUnprefixed(aspectRatio, fileName) == fileName
\* const s3Key = `${aspectRatio}/${fileName}` (the pipeline); the direct handler
\* uses fileName itself as the key.
S3Key(aspectRatio, fileName) == <<aspectRatio, "/">> \o fileName

\* const cloudFrontURL = `${cfg.s3CfDistribution}/${s3Key}`
CloudFrontURL(s3Key) == s3CfDistribution \o <<"/">> \o s3Key

\* `https://${cfg.s3Bucket}.s3.${cfg.s3Region}.amazonaws.com/${fileName}`
BucketURL(fileName) ==
    <<"https://">> \o s3Bucket \o <<".s3.">> \o s3Region \o <<".amazonaws.com/">>
        \o fileName

\* ------------------------------------------------------------------- state

VARIABLES
    pc,       \* per run: the await the handler is suspended at
    handler,  \* per run: which handlerUploadVideo serves it
    req,      \* per run: the request
    loc,      \* per run: the handler's local variables
    disk,     \* the file system under /tmp: path -> contents
    s3,       \* the bucket: key -> object
    db,       \* the videos table: id -> record
    outcome,  \* per run: what the caller received (a response or an error)
    hist,     \* per run: what the run did (files created, unlinks, children, steps)
    probe,    \* a call of getVideoAspectRatio on its own (SpecClassify)
    tool      \* a call of processVideoForFastStart with its child (SpecTool)

vars == <<pc, handler, req, loc, disk, s3, db, outcome, hist, probe, tool>>

InitLoc ==
    [video |-> Undefined, videoFile |-> Undefined, fileName |-> NoString,
     tempFilePath |-> NoString, tempFileCreated |-> FALSE,
     processedFilePath |-> NoString, aspectRatio |-> NULL, s3Key |-> NoString,
     thumbnail |-> Undefined, filePath |-> NoString]

InitHist ==
    [created |-> {}, released |-> <<>>, unlinkFailed |-> {}, spawned |-> <<>>,
     steps |-> <<>>, tryCompletion |-> Undefined, stdout |-> Undefined,
     probed |-> NoString, put |-> Undefined, updated |-> Undefined,
     cleaned |-> FALSE, exits |-> <<>>, probedData |-> Undefined,
     replaced |-> Undefined]

InitProbe ==
    [pc |-> "idle", exitCode |-> 0, stderr |-> <<>>, stdout |-> NotJSON,
     tie |-> FALSE, result |-> Undefined]

\* The two pipes of a child spawned with stdout: "pipe", stderr: "pipe".
Streams == {"stdout", "stderr"}

InitTool ==
    [pc |-> "idle", inputFilePath |-> NoString, script |-> <<>>, next |-> 1,
     exitCode |-> 0, exited |-> FALSE,
     pipe |-> [s \in Streams |-> <<>>], text |-> [s \in Streams |-> <<>>],
     done |-> [s \in Streams |-> FALSE], result |-> Undefined]

Init ==
    /\ pc = [r \in Runs |-> "idle"]
    /\ handler = [r \in Runs |-> NULL]
    /\ req = [r \in Runs |-> Undefined]
    /\ loc = [r \in Runs |-> InitLoc]
    /\ disk = NoFiles
    /\ s3 = NoFiles
    /\ db = InitDB
    /\ outcome = [r \in Runs |-> Undefined]
    /\ hist = [r \in Runs |-> InitHist]
    /\ probe = InitProbe
    /\ tool = InitTool

\* ----------------------------------------------------- the finally blocks

\* Variant: unlinkSync outside any try/catch, so its error leaves the block.
UnlinkTempUncaught(st, path, envFail) ==
    LET fails == envFail \/ path \notin DOMAIN st.disk
    IN  [disk |-> IF fails THEN st.disk ELSE RemoveFile(st.disk, path),
         released |-> Append(st.released, path),
         failed |-> IF fails THEN st.failed \cup {path} ELSE st.failed,
         abrupt |-> IF fails THEN Err("Error", <<"unlink failed">>) ELSE Undefined]
\* try { fs.unlinkSync(path) } catch (error) { console.error(...) }: the unlink
\* fails when the file is gone or the file system refuses it (envFail); the catch
\* logs the error and the block completes normally.
UnlinkTemp(st, path, envFail) ==
    LET fails == envFail \/ path \notin DOMAIN st.disk
    IN  [disk |-> IF fails THEN st.disk ELSE RemoveFile(st.disk, path),
         released |-> Append(st.released, path),
         failed |-> IF fails THEN st.failed \cup {path} ELSE st.failed,
         abrupt |-> Undefined]

CleanupStart(d) == [disk |-> d, released |-> <<>>, failed |-> {}, abrupt |-> Undefined]

\* Variant: a finally block that unlinks the original temp file only.
CleanupSkipsProcessed(l, d, failOrig, failProc) ==
    IF l.tempFileCreated
    THEN UnlinkTemp(CleanupStart(d), l.tempFilePath, failOrig)
    ELSE CleanupStart(d)
\* The pipeline's finally block, lines 92-112: the original temp file when
\* tempFileCreated, then the processed file when processedFilePath is set.  A
\* statement of the block runs only if none before it completed abruptly.
Cleanup(l, d, failOrig, failProc) ==
    LET s1 == IF l.tempFileCreated
              THEN UnlinkTemp(CleanupStart(d), l.tempFilePath, failOrig)
              ELSE CleanupStart(d)
    IN  IF s1.abrupt = Undefined /\ l.processedFilePath # NoString
        THEN UnlinkTemp(s1, l.processedFilePath, failProc)
        ELSE s1

\* The direct handler's finally block, src/api/videos.ts lines 81-91.
CleanupDirect(l, d, failOrig) ==
    IF l.tempFileCreated
    THEN UnlinkTemp(CleanupStart(d), l.tempFilePath, failOrig)
    ELSE CleanupStart(d)

\* Variant: a finally block ending in `return`, which discards a pending error.
FinallySwallows(tryCompletion, abrupt) ==
    IF abrupt # Undefined THEN Throw(abrupt)
    ELSE IF tryCompletion.ok THEN tryCompletion ELSE Return(Undefined)
\* try { ... } finally { ... }: the statement completes as the try block did,
\* unless the finally block itself completes abruptly.
FinallyCompletion(tryCompletion, abrupt) ==
    IF abrupt # Undefined THEN Throw(abrupt) ELSE tryCompletion

\* Control leaves the try block of run r with tryCompletion, locals l, history h
\* and the disk as d: the finally block runs and the handler returns or throws.
Leave(r, l, d, h, tryCompletion) ==
    \E failOrig \in BOOLEAN, failProc \in BOOLEAN :
        LET cl == IF handler[r] = "pipeline"
                  THEN Cleanup(l, d, failOrig, failProc)
                  ELSE CleanupDirect(l, d, failOrig)
        IN  /\ disk' = cl.disk
            /\ loc' = [loc EXCEPT ![r] = l]
            /\ hist' = [hist EXCEPT ![r] =
                   [h EXCEPT !.released = cl.released,
                             !.unlinkFailed = cl.failed,
                             !.tryCompletion = tryCompletion,
                             !.cleaned = TRUE]]
            /\ outcome' = [outcome EXCEPT ![r] =
                   FinallyCompletion(tryCompletion, cl.abrupt)]
            /\ pc' = [pc EXCEPT ![r] = "returned"]

\* A throw before the try statement: no finally block runs.
Reject(r, completion) ==
    /\ outcome' = [outcome EXCEPT ![r] = completion]
    /\ hist' = [hist EXCEPT ![r].tryCompletion = completion]
    /\ pc' = [pc EXCEPT ![r] = "returned"]

\* ---------------------------------------------- handlerUploadVideo: steps
\* One action per stretch of the handler between two awaits: JavaScript runs
\* such a stretch without interleaving another request.

Step(h, name) == [h EXCEPT !.steps = Append(@, name)]

\* What a temp file or an object holds.
Upload(fileName) == [kind |-> "upload", of |-> fileName]
FastStart(fileName) == [kind |-> "faststart", of |-> fileName]
Partial(fileName) == [kind |-> "partial", of |-> fileName]

\* Lines 13-35: the request arrives; the id, the token, the record and its owner
\* are checked; the handler awaits req.formData().
Begin(r) ==
    /\ pc[r] = "idle"
    /\ \E h \in Handlers, q \in Requests :
        LET c == CheckRequest(q, db)
        IN  /\ handler' = [handler EXCEPT ![r] = h]
            /\ req' = [req EXCEPT ![r] = q]
            /\ IF c.ok
               THEN /\ loc' = [loc EXCEPT ![r].video = c.value]
                    /\ hist' = [hist EXCEPT ![r] = Step(@, "authorized")]
                    /\ pc' = [pc EXCEPT ![r] = "formData"]
                    /\ UNCHANGED outcome
               ELSE /\ Reject(r, c)
                    /\ UNCHANGED loc
    /\ UNCHANGED <<disk, s3, db, probe, tool>>

\* Lines 35-60: the form is parsed; the "video" entry is validated; the random
\* name is drawn; the try block is entered and awaits videoFile.arrayBuffer().
AfterFormData(r) ==
    /\ pc[r] = "formData"
    /\ \E f \in Files \cup {NotAFile} :
        LET c == ValidateFile(f)
        IN  IF c.ok
            THEN \E n \in RandomNames :
                    /\ \A o \in Runs \ {r} : loc[o].fileName # FileName(n)
                    /\ loc' = [loc EXCEPT ![r] =
                           [@ EXCEPT !.videoFile = f,
                                     !.fileName = FileName(n),
                                     !.tempFilePath = TempFilePath(FileName(n)),
                                     !.tempFileCreated = FALSE,
                                     !.processedFilePath = NoString]]
                    /\ hist' = [hist EXCEPT ![r] = Step(@, "validated")]
                    /\ pc' = [pc EXCEPT ![r] = "arrayBuffer"]
                    /\ UNCHANGED outcome
            ELSE /\ Reject(r, c)
                 /\ loc' = [loc EXCEPT ![r].videoFile = f]
    /\ UNCHANGED <<handler, req, disk, s3, db, probe, tool>>

\* Lines 60-61: the body is in memory (or reading it failed); Bun.write starts.
AfterArrayBuffer(r) ==
    /\ pc[r] = "arrayBuffer"
    /\ \/ /\ pc' = [pc EXCEPT ![r] = "write"]
          /\ UNCHANGED <<loc, disk, outcome, hist>>
       \/ Leave(r, loc[r], disk, hist[r],
                Throw(Err("Error", <<"arrayBuffer failed">>)))
    /\ UNCHANGED <<handler, req, s3, db, probe, tool>>

\* Bun.write failed: the file was opened (created) before the write failed, or
\* was never created.  tempFileCreated stays false either way.
WriteFailed(r) ==
    \E partial \in BOOLEAN :
        LET l == loc[r]
            d == IF partial
                 THEN WriteFile(disk, l.tempFilePath, Partial(l.fileName))
                 ELSE disk
            h == IF partial
                 THEN [hist[r] EXCEPT !.created = @ \cup {l.tempFilePath}]
                 ELSE hist[r]
        IN  Leave(r, l, d, h, Throw(Err("Error", <<"write failed">>)))

\* Lines 61-65: Bun.write resolved, tempFileCreated = true; the pipeline spawns
\* ffmpeg on the temp file and awaits its exit.
AfterWrite(r) ==
    /\ pc[r] = "write"
    /\ handler[r] = "pipeline"
    /\ \/ /\ disk' = WriteFile(disk, loc[r].tempFilePath, Upload(loc[r].fileName))
          /\ loc' = [loc EXCEPT ![r].tempFileCreated = TRUE]
          /\ hist' = [hist EXCEPT ![r] =
                 [Step(@, "staged") EXCEPT
                     !.created = @ \cup {loc[r].tempFilePath},
                     !.spawned = Append(@, "ffmpeg")]]
          /\ pc' = [pc EXCEPT ![r] = "ffmpeg"]
          /\ UNCHANGED outcome
       \/ WriteFailed(r)
    /\ UNCHANGED <<handler, req, s3, db, probe, tool>>

\* The probe handed the staged upload instead of the normalized file.
ProbedFileRaw(l) == l.tempFilePath

\* Line 68: the file handed to getVideoAspectRatio.
ProbedFile(l) == l.processedFilePath

\* Line 73: the file handed to s3File.write, Bun.file(processedFilePath).
PublishedFile(l) == l.processedFilePath

\* Line 65 and processVideoForFastStart: ffmpeg has exited.  Exit code 0 means
\* the input was read and the output file is written; a failing ffmpeg has created its output file (it
\* opens the output before it writes the header) or has not.  On success the
\* handler spawns ffprobe on the processed file.
AfterFfmpeg(r) ==
    /\ pc[r] = "ffmpeg"
    /\ \E exitCode \in ExitCodes, stderr \in StderrTexts, wrote \in BOOLEAN :
        LET l == loc[r]
            out == OutputFilePath(l.tempFilePath)
            c == processVideoForFastStart(l.tempFilePath, exitCode, stderr)
            d == IF exitCode = 0 THEN WriteFile(disk, out, FastStart(l.fileName))
                 ELSE IF wrote THEN WriteFile(disk, out, Partial(l.fileName))
                 ELSE disk
            h0 == [hist[r] EXCEPT !.exits = Append(@, exitCode)]
            h == IF exitCode = 0 \/ wrote
                 THEN [h0 EXCEPT !.created = @ \cup {out}]
                 ELSE h0
            l2 == IF c.ok THEN [l EXCEPT !.processedFilePath = c.value] ELSE l
        IN  /\ exitCode = 0 => (wrote /\ l.tempFilePath \in DOMAIN disk)
            /\ IF c.ok
               THEN /\ disk' = d
                    /\ loc' = [loc EXCEPT ![r] = l2]
                    /\ hist' = [hist EXCEPT ![r] =
                           [Step(h, "normalized") EXCEPT
                               !.spawned = Append(@, "ffprobe"),
                               !.probed = ProbedFile(l2),
                               !.probedData =
                                   IF ProbedFile(l2) \in DOMAIN d
                                   THEN d[ProbedFile(l2)]
                                   ELSE Undefined]]
                    /\ pc' = [pc EXCEPT ![r] = "ffprobe"]
                    /\ UNCHANGED outcome
               ELSE Leave(r, l, d, h, c)
    /\ UNCHANGED <<handler, req, s3, db, probe, tool>>

\* Lines 68-75 and getVideoAspectRatio: ffprobe has exited (with code 0 only if
\* it could read the processed file).  On success the key
\* is built and the upload of the processed file to S3 starts.
AfterFfprobe(r) ==
    /\ pc[r] = "ffprobe"
    /\ \E exitCode \in ExitCodes, stderr \in StderrTexts,
          stdout \in HandlerProbeOutputs, tie \in BOOLEAN :
        LET l == loc[r]
            c == getVideoAspectRatio(exitCode, stderr, stdout, tie)
            h == [hist[r] EXCEPT !.stdout = stdout,
                                 !.exits = Append(@, exitCode)]
        IN  /\ exitCode = 0 => ProbedFile(l) \in DOMAIN disk
            /\ IF c.ok
               THEN /\ loc' = [loc EXCEPT ![r] =
                           [@ EXCEPT !.aspectRatio = c.value,
                                     !.s3Key = S3Key(c.value, l.fileName)]]
                    /\ hist' = [hist EXCEPT ![r] = Step(h, "classified")]
                    /\ pc' = [pc EXCEPT ![r] = "s3write"]
                    /\ UNCHANGED <<disk, outcome>>
               ELSE Leave(r, l, disk, h, c)
    /\ UNCHANGED <<handler, req, s3, db, probe, tool>>

\* The record rebuilt from its key fields: the other locations are dropped.
UpdatedVideoRebuilt(video, videoURL) ==
    [video EXCEPT !.videoURL = videoURL, !.thumbnailURL = NoString]

\* Lines 83-86: { ...video, videoURL }.
UpdatedVideo(video, videoURL) == [video EXCEPT !.videoURL = videoURL]

\* The update made although the upload was not awaited to its end.
RecordWrittenUnawaited(stored, saved) == saved

\* Lines 75-88: updateVideo is reached only when the awaited s3File.write
\* resolved, and changes the table only when it succeeds itself.
RecordWritten(stored, saved) == stored /\ saved

\* Lines 75-91 (pipeline) after s3File.write: on success the CloudFront URL is
\* written to the record and the record is returned; otherwise the error leaves
\* the try block.  `sent`: the transfer succeeded; `saved`: updateVideo did.
AfterS3Write(r) ==
    /\ pc[r] = "s3write"
    /\ handler[r] = "pipeline"
    /\ \E sent \in BOOLEAN, saved \in BOOLEAN :
        LET l == loc[r]
            stored == sent /\ PublishedFile(l) \in DOMAIN disk
            object == [data |-> disk[PublishedFile(l)], type |-> l.videoFile.type,
                       from |-> PublishedFile(l)]
            updatedVideo == UpdatedVideo(l.video, CloudFrontURL(l.s3Key))
            h1 == IF stored
                  THEN [Step(hist[r], "published") EXCEPT
                           !.put = [key |-> l.s3Key, object |-> object]]
                  ELSE hist[r]
            h2 == IF RecordWritten(stored, saved)
                  THEN [Step(h1, "updated") EXCEPT
                           !.updated = updatedVideo,
                           !.replaced = db[updatedVideo.id]]
                  ELSE h1
            c == IF ~stored THEN Throw(Err("S3Error", <<"upload failed">>))
                 ELSE IF ~saved THEN Throw(Err("SQLiteError", <<"update failed">>))
                 ELSE Return(respondWithJSON(200, updatedVideo))
        IN  /\ s3' = IF stored THEN WriteFile(s3, l.s3Key, object) ELSE s3
            /\ db' = IF RecordWritten(stored, saved)
                     THEN updateVideo(db, updatedVideo)
                     ELSE db
            /\ Leave(r, l, disk, h2, c)
    /\ UNCHANGED <<handler, req, probe, tool>>

\* src/api/videos.ts lines 59-66: Bun.write resolved; the direct handler starts
\* the upload of the temp file itself, under the key fileName.
DirectAfterWrite(r) ==
    /\ pc[r] = "write"
    /\ handler[r] = "direct"
    /\ \/ /\ disk' = WriteFile(disk, loc[r].tempFilePath, Upload(loc[r].fileName))
          /\ loc' = [loc EXCEPT ![r] =
                 [@ EXCEPT !.tempFileCreated = TRUE, !.s3Key = loc[r].fileName]]
          /\ hist' = [hist EXCEPT ![r] =
                 [Step(@, "staged") EXCEPT !.created = @ \cup {loc[r].tempFilePath}]]
          /\ pc' = [pc EXCEPT ![r] = "s3write"]
          /\ UNCHANGED outcome
       \/ WriteFailed(r)
    /\ UNCHANGED <<handler, req, s3, db, probe, tool>>

\* src/api/videos.ts lines 66-91 after s3File.write: the bucket URL is written to
\* the record.
DirectAfterS3Write(r) ==
    /\ pc[r] = "s3write"
    /\ handler[r] = "direct"
    /\ \E sent \in BOOLEAN, saved \in BOOLEAN :
        LET l == loc[r]
            stored == sent /\ l.tempFilePath \in DOMAIN disk
            object == [data |-> disk[l.tempFilePath], type |-> l.videoFile.type,
                       from |-> l.tempFilePath]
            updatedVideo == UpdatedVideo(l.video, BucketURL(l.fileName))
            h1 == IF stored
                  THEN [Step(hist[r], "published") EXCEPT
                           !.put = [key |-> l.s3Key, object |-> object]]
                  ELSE hist[r]
            h2 == IF RecordWritten(stored, saved)
                  THEN [Step(h1, "updated") EXCEPT
                           !.updated = updatedVideo,
                           !.replaced = db[updatedVideo.id]]
                  ELSE h1
            c == IF ~stored THEN Throw(Err("S3Error", <<"upload failed">>))
                 ELSE IF ~saved THEN Throw(Err("SQLiteError", <<"update failed">>))
                 ELSE Return(respondWithJSON(200, updatedVideo))
        IN  /\ s3' = IF stored THEN WriteFile(s3, l.s3Key, object) ELSE s3
            /\ db' = IF RecordWritten(stored, saved)
                     THEN updateVideo(db, updatedVideo)
                     ELSE db
            /\ Leave(r, l, disk, h2, c)
    /\ UNCHANGED <<handler, req, probe, tool>>

\* ------------------------------- src/api/thumbnails.ts: handlerUploadThumbnail

\* const MAX_UPLOAD_SIZE = 10 << 20 (thumbnails.ts line 15)
THUMBNAIL_MAX_UPLOAD_SIZE == ShiftLeft32(10, 20)

\* The "thumbnail" entries of a form.
ThumbnailSizes == {1, THUMBNAIL_MAX_UPLOAD_SIZE + 1}
ThumbnailTypes == {"image/png", "IMAGE/JPEG", "text/plain"}
ThumbnailFiles == [isFile : {TRUE}, size : ThumbnailSizes, type : ThumbnailTypes]

\* cfg
assetsRoot == <<"./assets">>
port == "8091"

\* mimeType.toLowerCase()
ToLowerCase(mimeType) == IF mimeType = "IMAGE/JPEG" THEN "image/jpeg" ELSE mimeType

\* Lines 89-97.
getFileExtensionFromMimeType(mimeType) ==
    LET lower == ToLowerCase(mimeType)
    IN  IF lower \in {"image/jpeg", "image/jpg"} THEN "jpg"
        ELSE IF lower = "image/png" THEN "png"
        ELSE "jpg"

\* Lines 69-72: `${videoId}.${fileExtension}` and path.join(cfg.assetsRoot, fileName).
ThumbnailFileName(videoId, type) ==
    <<videoId, ".", getFileExtensionFromMimeType(type)>>
ThumbnailFilePath(fileName) == assetsRoot \o <<"/">> \o fileName

\* Line 77.
ThumbnailURL(fileName) == <<"http://localhost:", port, "/assets/">> \o fileName

\* What a thumbnail file holds.
Image(fileName) == [kind |-> "image", of |-> fileName]

\* Lines 42-48: the checks made before the body is read.
ThumbnailCheckRequest(q) ==
    IF q.videoId = NULL
    THEN Throw(Err("BadRequestError", <<"Invalid video ID">>))
    ELSE validateJWT(q.token)

\* Lines 51-67: the checks on the "thumbnail" entry, then on the record.
ThumbnailCheckVideo(q, userID, thumbnail, database) ==
    IF ~thumbnail.isFile
    THEN Throw(Err("BadRequestError", <<"Thumbnail must be a file">>))
    ELSE IF thumbnail.size > THUMBNAIL_MAX_UPLOAD_SIZE
    THEN Throw(Err("BadRequestError", <<"Thumbnail is too large">>))
    ELSE LET video == getVideo(database, q.videoId)
         IN  IF video = Undefined
             THEN Throw(Err("NotFoundError", <<"Video not found">>))
             ELSE IF NotOwner(video, userID)
             THEN Throw(Err("UserForbiddenError",
                            <<"You are not the owner of this video">>))
             ELSE Return(video)

\* Lines 79-82: { ...video, thumbnailURL }.
UpdatedThumbnail(video, thumbnailURL) == [video EXCEPT !.thumbnailURL = thumbnailURL]

\* Lines 41-50: the request arrives; the id and the token are checked; the
\* handler awaits req.formData().
ThumbnailBegin(r) ==
    /\ pc[r] = "idle"
    /\ \E q \in Requests :
        LET c == ThumbnailCheckRequest(q)
        IN  /\ handler' = [handler EXCEPT ![r] = "thumbnail"]
            /\ req' = [req EXCEPT ![r] = q]
            /\ IF c.ok
               THEN /\ pc' = [pc EXCEPT ![r] = "thumbnailFormData"]
                    /\ UNCHANGED <<outcome, hist>>
               ELSE Reject(r, c)
    /\ UNCHANGED <<loc, disk, s3, db, probe, tool>>

\* Lines 50-74: the form is parsed; the entry is checked; the record is read
\* and its owner checked; the handler awaits thumbnail.arrayBuffer().
ThumbnailAfterFormData(r) ==
    /\ pc[r] = "thumbnailFormData"
    /\ \E f \in ThumbnailFiles \cup {NotAFile} :
        LET c == ThumbnailCheckVideo(req[r], validateJWT(req[r].token).value, f, db)
            fileName == ThumbnailFileName(req[r].videoId, f.type)
        IN  IF c.ok
            THEN /\ loc' = [loc EXCEPT ![r] =
                        [@ EXCEPT !.video = c.value,
                                  !.thumbnail = f,
                                  !.fileName = fileName,
                                  !.filePath = ThumbnailFilePath(fileName)]]
                 /\ pc' = [pc EXCEPT ![r] = "thumbnailArrayBuffer"]
                 /\ UNCHANGED <<outcome, hist>>
            ELSE /\ Reject(r, c)
                 /\ UNCHANGED loc
    /\ UNCHANGED <<handler, req, disk, s3, db, probe, tool>>

\* Lines 74-75: the body is in memory (or reading it failed); Bun.write starts.
ThumbnailAfterArrayBuffer(r) ==
    /\ pc[r] = "thumbnailArrayBuffer"
    /\ \/ /\ pc' = [pc EXCEPT ![r] = "thumbnailWrite"]
          /\ UNCHANGED <<outcome, hist>>
       \/ Reject(r, Throw(Err("Error", <<"arrayBuffer failed">>)))
    /\ UNCHANGED <<handler, req, loc, disk, s3, db, probe, tool>>

\* Lines 75-86: Bun.write resolved (or failed, leaving a file or none); the URL
\* is written to the record read at line 60 and the record is returned.
ThumbnailAfterWrite(r) ==
    /\ pc[r] = "thumbnailWrite"
    /\ \E written \in BOOLEAN, partial \in BOOLEAN, saved \in BOOLEAN :
        LET l == loc[r]
            updatedVideo == UpdatedThumbnail(l.video, ThumbnailURL(l.fileName))
            h1 == IF written \/ partial
                  THEN [hist[r] EXCEPT !.created = @ \cup {l.filePath}]
                  ELSE hist[r]
            h2 == IF written /\ saved
                  THEN [h1 EXCEPT !.updated = updatedVideo,
                                  !.replaced = db[updatedVideo.id]]
                  ELSE h1
            c == IF ~written THEN Throw(Err("Error", <<"write failed">>))
                 ELSE IF ~saved THEN Throw(Err("SQLiteError", <<"update failed">>))
                 ELSE Return(respondWithJSON(200, updatedVideo))
        IN  /\ written => ~partial
            /\ disk' = IF written THEN WriteFile(disk, l.filePath, Image(l.fileName))
                       ELSE IF partial
                       THEN WriteFile(disk, l.filePath, Partial(l.fileName))
                       ELSE disk
            /\ db' = IF written /\ saved THEN updateVideo(db, updatedVideo) ELSE db
            /\ outcome' = [outcome EXCEPT ![r] = c]
            /\ hist' = [hist EXCEPT ![r] = [h2 EXCEPT !.tryCompletion = c]]
            /\ pc' = [pc EXCEPT ![r] = "returned"]
    /\ UNCHANGED <<handler, req, loc, s3, probe, tool>>

Next ==
    \E r \in Runs :
        \/ Begin(r)
        \/ AfterFormData(r)
        \/ AfterArrayBuffer(r)
        \/ AfterWrite(r)
        \/ AfterFfmpeg(r)
        \/ AfterFfprobe(r)
        \/ AfterS3Write(r)
        \/ DirectAfterWrite(r)
        \/ DirectAfterS3Write(r)
        \/ ThumbnailBegin(r)
        \/ ThumbnailAfterFormData(r)
        \/ ThumbnailAfterArrayBuffer(r)
        \/ ThumbnailAfterWrite(r)

Spec == Init /\ [][Next]_vars

\* ------------------------------------------- getVideoAspectRatio on its own

\* Widths and heights ffprobe may report: a dense grid from 0, the dimensions
\* whose ratio is exactly 0.1 from 16/9 or from 9/16, and the common 1080p pair.
Dims == (0 .. MaxDim) \cup {37, 53, 80, 90, 151, 169, 1080, 1920}

ProbeOutputs ==
    {NotJSON, JSONNoStreams, JSONStreams(<<>>)}
        \cup { JSONStreams(<<Stream(hasW, w, hasH, h)>>) :
                 hasW \in BOOLEAN, w \in Dims, hasH \in BOOLEAN, h \in Dims }

\* Lines 2-27: the child is spawned and both pipes are read to their end; the
\* child exits with a code, having written stderr and stdout.
ProbeExit ==
    /\ probe.pc = "idle"
    /\ \E exitCode \in ExitCodes, stderr \in StderrTexts,
          stdout \in ProbeOutputs, tie \in BOOLEAN :
        probe' = [pc |-> "exited", exitCode |-> exitCode, stderr |-> stderr,
                  stdout |-> stdout, tie |-> tie, result |-> Undefined]
    /\ UNCHANGED <<pc, handler, req, loc, disk, s3, db, outcome, hist, tool>>

\* Lines 29-65: the promise settles.
ProbeSettle ==
    /\ probe.pc = "exited"
    /\ probe' = [probe EXCEPT
           !.pc = "settled",
           !.result = getVideoAspectRatio(probe.exitCode, probe.stderr,
                                          probe.stdout, probe.tie)]
    /\ UNCHANGED <<pc, handler, req, loc, disk, s3, db, outcome, hist, tool>>

NextClassify == ProbeExit \/ ProbeSettle

SpecClassify == Init /\ [][NextClassify]_vars

\* ================================================================== claims

Labels == {"landscape", "portrait"}

\* |w / h - 16/9| < 0.1 and |w / h - 9/16| < 0.1 over the rationals.
InLandscapeBand(w, h) == 10 * Abs(9 * w - 16 * h) < 9 * h
InPortraitBand(w, h) == 10 * Abs(16 * w - 9 * h) < 16 * h

\* The probe printed a first stream with a positive width and height.
HasDims(stdout) ==
    /\ stdout.json
    /\ "streams" \in DOMAIN stdout.data
    /\ Len(stdout.data["streams"]) > 0
    /\ DOMAIN stdout.data["streams"][1] = {"width", "height"}
    /\ stdout.data["streams"][1]["width"] > 0
    /\ stdout.data["streams"][1]["height"] > 0
WidthOf(stdout) == stdout.data["streams"][1]["width"]
HeightOf(stdout) == stdout.data["streams"][1]["height"]

\* A settled call whose child exited 0 and printed positive dimensions.
Probed == probe.pc = "settled" /\ probe.exitCode = 0 /\ HasDims(probe.stdout)

\* C5: for positive integer width and height, a ratio within 0.1 of 16/9 is
\* classified landscape and a ratio within 0.1 of 9/16 portrait, and no input is
\* within both bands.
C5_BandsClassify ==
    Probed =>
        LET w == WidthOf(probe.stdout)
            h == HeightOf(probe.stdout)
        IN  /\ InLandscapeBand(w, h) => probe.result = Return("landscape")
            /\ InPortraitBand(w, h) => probe.result = Return("portrait")
            /\ ~(InLandscapeBand(w, h) /\ InPortraitBand(w, h))

C5_Witness ==
    /\ Probed
    /\ WidthOf(probe.stdout) = 5 /\ HeightOf(probe.stdout) = 9
    /\ InPortraitBand(5, 9)
    /\ probe.result = Return("portrait")

\* C6: outside both bands the label is landscape exactly when width > height
\* and portrait otherwise; a square is portrait, 4:3 is landscape, and every
\* returned label is landscape or portrait.
C6_FallbackByOrientation ==
    Probed =>
        LET w == WidthOf(probe.stdout)
            h == HeightOf(probe.stdout)
        IN  /\ probe.result.ok
            /\ probe.result.value \in Labels
            /\ ~InLandscapeBand(w, h) /\ ~InPortraitBand(w, h) =>
                   (probe.result.value = "landscape" <=> w > h)
            /\ w = h => probe.result.value = "portrait"
            /\ 3 * w = 4 * h => probe.result.value = "landscape"

C6_Witness ==
    /\ Probed
    /\ WidthOf(probe.stdout) = 8 /\ HeightOf(probe.stdout) = 8
    /\ ~InLandscapeBand(8, 8) /\ ~InPortraitBand(8, 8)
    /\ probe.result = Return("portrait")

\* The probe's output lacks the first stream, its width or its height.
LacksDims(stdout) ==
    \/ ~stdout.json
    \/ "streams" \notin DOMAIN stdout.data
    \/ Len(stdout.data["streams"]) = 0
    \/ "width" \notin DOMAIN stdout.data["streams"][1]
    \/ "height" \notin DOMAIN stdout.data["streams"][1]

\* s ends with t.
EndsWith(s, t) ==
    /\ Len(t) <= Len(s)
    /\ SubSeq(s, Len(s) - Len(t) + 1, Len(s)) = t

\* C10: getVideoAspectRatio returns no classification when ffprobe exits
\* non-zero or its output lacks the first stream, its width or its height: it
\* throws, and on a non-zero exit the error carries the exit code and the
\* captured stderr.
C10_ProbeFailureThrows ==
    probe.pc = "settled" =>
        /\ (probe.exitCode # 0 \/ LacksDims(probe.stdout)) => ~probe.result.ok
        /\ probe.exitCode # 0 =>
               /\ ~probe.result.ok
               /\ probe.result.error.message[1] = "ffprobe failed with exit code "
               /\ probe.result.error.message[2] = ToString(probe.exitCode)
               /\ EndsWith(probe.result.error.message, probe.stderr)
               /\ Len(probe.result.error.message) = 3 + Len(probe.stderr)

C10_Witness ==
    /\ probe.pc = "settled"
    /\ probe.exitCode = 1
    /\ probe.stderr = <<"invalid data found">>
    /\ HasDims(probe.stdout)
    /\ ~probe.result.ok

\* ------------------------------------------------------ claims on the runs

Returned(r) == pc[r] = "returned"
Pipeline(r) == handler[r] = "pipeline"

\* How often x occurs in seq.
Count(seq, x) == Cardinality({i \in 1 .. Len(seq) : seq[i] = x})

\* The steps a run has completed, by how far it got.
StepsToValidated == <<"authorized", "validated">>
StepsToStaged == Append(StepsToValidated, "staged")
StepsToNormalized == Append(StepsToStaged, "normalized")
StepsToClassified == Append(StepsToNormalized, "classified")
StepsToPublished == Append(StepsToClassified, "published")
StepsToUpdated == Append(StepsToPublished, "updated")

\* The run returned because ffmpeg exited non-zero: ffmpeg was spawned and
\* ffprobe never was.
NormalizerFailed(r) ==
    Pipeline(r) /\ Returned(r) /\ hist[r].spawned = <<"ffmpeg">>

\* The run returned because the probe failed: ffprobe was spawned and no
\* classification was made.
ProbeFailed(r) ==
    /\ Pipeline(r) /\ Returned(r)
    /\ hist[r].spawned = <<"ffmpeg", "ffprobe">>
    /\ hist[r].steps = StepsToNormalized

\* C1: when a pipeline run returns, at whichever step, the files it created
\* and the files it released are the same, each released exactly once, and no
\* release is attempted for a file that was never created.
C1_AcquiredEqualsReleased ==
    \A r \in Runs :
        Pipeline(r) /\ Returned(r) =>
            /\ Cardinality(hist[r].created) = Len(hist[r].released)
            /\ \A p \in hist[r].created : Count(hist[r].released, p) = 1
            /\ \A i \in 1 .. Len(hist[r].released) :
                   hist[r].released[i] \in hist[r].created

\* C2: when ffmpeg exits non-zero the run fails with ffmpeg's error and, every
\* unlink the run attempted having succeeded, neither the staged file nor a file
\* at the output path (input path + ".processed") remains on disk.
C2_NormalizerFailureLeavesNoTemp ==
    \A r \in Runs :
        NormalizerFailed(r) /\ hist[r].unlinkFailed = {} =>
            /\ ~outcome[r].ok
            /\ outcome[r].error.message[1] = "ffmpeg failed with exit code "
            /\ loc[r].tempFilePath \notin DOMAIN disk
            /\ loc[r].tempFilePath \o <<".processed">> \notin DOMAIN disk

\* An error getVideoAspectRatio throws.
ProbeError(e) ==
    \/ e.name = "Error" /\ e.message[1] = "ffprobe failed with exit code "
    \/ e.name \in {"SyntaxError", "TypeError"}
    \/ e = Err("Error", <<"Could not get video dimensions">>)

\* C3: when normalization succeeded and the probe failed, the run fails with
\* the probe's error, nothing was published, the record was not updated, and
\* the staged original and the normalized file were each released once (and are
\* gone from the disk unless their unlink failed).
C3_ProbeFailureReleasesBoth ==
    \A r \in Runs :
        ProbeFailed(r) =>
            /\ ~outcome[r].ok
            /\ ProbeError(outcome[r].error)
            /\ hist[r].put = Undefined
            /\ \A k \in DOMAIN s3 : s3[k].data.of # loc[r].fileName
            /\ hist[r].updated = Undefined
            /\ hist[r].released =
                   <<loc[r].tempFilePath, loc[r].tempFilePath \o <<".processed">>>>
            /\ \A p \in {loc[r].tempFilePath, loc[r].tempFilePath \o <<".processed">>} :
                   p \notin hist[r].unlinkFailed => p \notin DOMAIN disk

C3_Witness ==
    \E r \in Runs :
        /\ ProbeFailed(r)
        /\ hist[r].stdout = JSONStreams(<<Stream(TRUE, 1920, FALSE, 0)>>)
        /\ outcome[r] = Throw(Err("Error", <<"Could not get video dimensions">>))
        /\ hist[r].unlinkFailed = {}
        /\ loc[r].processedFilePath \notin DOMAIN disk

\* C4: the "video" file is rejected exactly when its size is greater than
\* 1 << 30 (a size equal to it is accepted) or its type is not "video/mp4"; a
\* rejected upload created no file, spawned no child, published nothing, left
\* the record alone and had nothing to clean up.
C4_ValidationRejects ==
    \A r \in Runs :
        loc[r].videoFile # Undefined /\ loc[r].videoFile.isFile =>
            LET f == loc[r].videoFile
                bad == f.size > 1073741824 \/ f.type # "video/mp4"
            IN  /\ bad <=> (Returned(r) /\ hist[r].steps = <<"authorized">>)
                /\ ~bad <=> (Len(hist[r].steps) >= 2 /\ hist[r].steps[2] = "validated")
                /\ bad =>
                       /\ ~outcome[r].ok
                       /\ outcome[r].error.name = "BadRequestError"
                       /\ hist[r].created = {}
                       /\ hist[r].released = <<>>
                       /\ hist[r].spawned = <<>>
                       /\ hist[r].put = Undefined
                       /\ hist[r].updated = Undefined
                       /\ ~hist[r].cleaned
                       /\ loc[r].fileName = NoString

C4_Witness ==
    \E r \in Runs :
        /\ Returned(r)
        /\ loc[r].videoFile = [isFile |-> TRUE, size |-> 1073741825,
                               type |-> "video/mp4"]
        /\ outcome[r] = Throw(Err("BadRequestError", <<"Video file is too large">>))
        /\ hist[r].created = {}

\* The label of the dimensions a run's probe printed.
LabelsOf(stdout) ==
    { getVideoAspectRatio(0, <<>>, stdout, t).value : t \in BOOLEAN }

C8_CleanupFailureIsNotFatal ==
    \A r \in Runs :
        Pipeline(r) /\ Returned(r) /\ hist[r].cleaned =>
            /\ outcome[r] = hist[r].tryCompletion
            /\ hist[r].steps = StepsToUpdated =>
                   outcome[r].ok /\ outcome[r].value.status = 200
            /\ hist[r].steps # StepsToUpdated => ~outcome[r].ok
            /\ loc[r].tempFileCreated => Count(hist[r].released, loc[r].tempFilePath) = 1
            /\ loc[r].processedFilePath # NoString =>
                   Count(hist[r].released, loc[r].processedFilePath) = 1

C8_Witness ==
    \E r \in Runs :
        /\ Pipeline(r) /\ Returned(r)
        /\ hist[r].steps = StepsToUpdated
        /\ outcome[r].ok
        /\ loc[r].tempFilePath \in hist[r].unlinkFailed
        /\ loc[r].tempFilePath \in DOMAIN disk
        /\ hist[r].released = <<loc[r].tempFilePath, loc[r].processedFilePath>>
        /\ loc[r].processedFilePath \notin DOMAIN disk

\* The error of the step that failed, by the steps the run had completed.
FirstFailure(r, e) ==
    LET done == hist[r].steps
    IN  \/ done = StepsToValidated /\ e.message \in {<<"arrayBuffer failed">>, <<"write failed">>}
        \/ done = StepsToStaged /\ e.message[1] = "ffmpeg failed with exit code "
        \/ /\ done = StepsToNormalized
           /\ \/ e.message[1] = "ffprobe failed with exit code "
              \/ e.name \in {"SyntaxError", "TypeError"}
              \/ e.message = <<"Could not get video dimensions">>
        \/ done = StepsToClassified /\ e.name = "S3Error"
        \/ done = StepsToPublished /\ e.name = "SQLiteError"

\* C9: a pipeline run reports success only if staging, normalization,
\* classification, publication and the record update all succeeded; otherwise
\* the cleanup has run and the caller receives the error of the first step that
\* failed, as it was thrown.
C9_StepFailureSurfaces ==
    \A r \in Runs :
        Pipeline(r) /\ Returned(r) /\ Len(hist[r].steps) >= 2 =>
            /\ outcome[r].ok => hist[r].steps = StepsToUpdated
            /\ hist[r].steps # StepsToUpdated =>
                   /\ ~outcome[r].ok
                   /\ hist[r].cleaned
                   /\ outcome[r] = hist[r].tryCompletion
                   /\ FirstFailure(r, outcome[r].error)

C9_Witness ==
    \E r \in Runs :
        /\ Pipeline(r) /\ Returned(r)
        /\ hist[r].steps = StepsToClassified
        /\ outcome[r] = Throw(Err("S3Error", <<"upload failed">>))
        /\ hist[r].cleaned
        /\ hist[r].released = <<loc[r].tempFilePath, loc[r].processedFilePath>>

\* ------------------------------------------------------- the order of steps

IsPrefix(s, t) == Len(s) <= Len(t) /\ SubSeq(t, 1, Len(s)) = s

\* The try block of line 58 was entered: validation passed.
EnteredTry(h) == Len(h.steps) >= Len(StepsToValidated)

\* What C11 says of one step of the system, for pipeline run r, in terms of
\* the run's history after the step.
StepOrder(r) ==
    LET h == hist'[r]
    IN  /\ IsPrefix(h.steps, StepsToUpdated)
        /\ IsPrefix(hist[r].steps, h.steps)
        /\ IsPrefix(h.spawned, <<"ffmpeg", "ffprobe">>)
        /\ IsPrefix(h.exits, <<0, 0>>) \/ h.cleaned
        /\ Len(h.exits) <= Len(h.spawned)
        \* no probe after a failed normalize
        /\ Len(h.spawned) = 2 => h.exits[1] = 0
        \* no publish after a failed probe
        /\ h.put # Undefined =>
               /\ h.exits = <<0, 0>>
               /\ HasDims(h.stdout)
        \* no record update after a failed publish
        /\ h.updated # Undefined =>
               /\ h.put # Undefined
               /\ h.put.key \in DOMAIN s3'
        \* Cleanup runs last, and before control returns
        /\ h.cleaned => pc'[r] = "returned"
        /\ (pc'[r] = "returned" /\ EnteredTry(h)) => h.cleaned
        /\ pc[r] = "returned" =>
               /\ hist'[r] = hist[r]
               /\ outcome'[r] = outcome[r]
               /\ pc'[r] = "returned"

\* C11: in every pipeline run the steps occur only in the order validated,
\* staged, normalized, classified, published, updated; no probe is spawned
\* after a failed ffmpeg, nothing is published after a failed probe, no record
\* is updated after a failed publish; the finally block runs after the last
\* step of every run that entered the try block and before the run returns,
\* and a returned run does nothing more.
C11_StepsInOrder ==
    [][\A r \in Runs : handler'[r] = "pipeline" => StepOrder(r)]_vars

\* A run stopped by a failed probe and one that went through to the update
\* have both run their cleanup.
C11_Witness ==
    \E r, o \in Runs :
        /\ ProbeFailed(r) /\ hist[r].exits = <<0, 1>> /\ hist[r].cleaned
        /\ Pipeline(o) /\ Returned(o) /\ hist[o].steps = StepsToUpdated
        /\ hist[o].cleaned

\* --------------------------------------------- what is probed and published

Moves(r) == pc'[r] # pc[r]

\* The keys a location written to a record may refer to.
KeysOf(videoURL, store) ==
    { k \in DOMAIN store : videoURL \in {CloudFrontURL(k), BucketURL(k)} }

\* What C13 says of one step of the system, for pipeline run r.
RecordUpdate(r) ==
    LET h == hist'[r]
    IN  \* the one update: after the put, by a run that then succeeds
        /\ h.updated # hist[r].updated =>
               /\ hist[r].updated = Undefined
               /\ Moves(r)
               /\ h.put # Undefined
               /\ h.put.key \in DOMAIN s3'
               /\ s3'[h.put.key] = h.put.object
               /\ h.updated.videoURL = CloudFrontURL(h.put.key)
               /\ h.steps = StepsToUpdated
               /\ db' = updateVideo(db, h.updated)
               /\ pc'[r] = "returned" /\ outcome'[r].ok
        \* any other step of the run leaves the table alone
        /\ (Moves(r) /\ h.updated = hist[r].updated) => db' = db
        \* a returned run succeeded exactly when it made its update
        /\ pc'[r] = "returned" => (outcome'[r].ok <=> h.updated # Undefined)

\* C13: a pipeline run updates the record once if it succeeds and never if it
\* fails, and only after its put has completed; so the location held by a
\* record always refers to a key whose object is in the bucket.
C13_UpdateOnceAfterPublish ==
    [][/\ \A r \in Runs : handler'[r] = "pipeline" => RecordUpdate(r)
       /\ \A id \in DOMAIN db' :
              db'[id].videoURL # NoString => KeysOf(db'[id].videoURL, s3') # {}]_vars

\* One pipeline run has updated the record with the location of its object,
\* another failed at the put or at the update and changed nothing.
C13_Witness ==
    \E r, o \in Runs :
        /\ Pipeline(r) /\ Returned(r) /\ hist[r].updated # Undefined
        /\ db[hist[r].updated.id].videoURL = CloudFrontURL(hist[r].put.key)
        /\ Pipeline(o) /\ Returned(o) /\ ~outcome[o].ok
        /\ hist[o].steps \in {StepsToClassified, StepsToPublished}

\* ------------------------------------------------- runs beside one another

\* The temp files of run o, as far as o has created them.
TempFilesOf(o) == hist[o].created

\* What C14 says of one step of run r beside run o.
Isolated(r, o) ==
    LET h == hist'[r]
    IN  /\ Moves(r) =>
               \A p \in TempFilesOf(o) :
                   \* neither overwritten nor deleted nor created anew
                   /\ (p \in DOMAIN disk') = (p \in DOMAIN disk)
                   /\ p \in DOMAIN disk => disk'[p] = disk[p]
                   \* not read by the probe or by the upload
                   /\ h.probed # p
                   /\ h.put # Undefined => h.put.object.from # p
                   \* not unlinked by the cleanup, successfully or not
                   /\ \A i \in 1 .. Len(h.released) : h.released[i] # p
                   /\ p \notin h.unlinkFailed
        \* the two runs write different keys
        /\ (h.put # Undefined /\ hist'[o].put # Undefined) =>
               h.put.key # hist'[o].put.key

\* C14: in every interleaving of runs with distinct random names, no step of
\* a run reads, overwrites, creates or deletes a temp file of another run, the
\* run's cleanup leaves the other runs' temp files in place, and no two runs
\* write the same key.
C14_RunsAreIsolated ==
    [][\A r \in Runs : \A o \in Runs \ {r} :
           (handler'[r] \in Handlers /\ handler'[o] \in Handlers) => Isolated(r, o)]_vars

\* One run has returned and unlinked its files while the other, waiting for
\* its probe or its upload, still has both of its temp files on disk.
C14_Witness ==
    \E r \in Runs : \E o \in Runs \ {r} :
        /\ Pipeline(r) /\ Returned(r) /\ Len(hist[r].released) = 2
        /\ Pipeline(o) /\ pc[o] \in {"ffprobe", "s3write"}
        /\ Cardinality(hist[o].created) = 2
        /\ hist[o].created \subseteq DOMAIN disk
        /\ hist[o].created \cap hist[r].created = {}

\* --------------------------------- processVideoForFastStart with its child
\* src/utils/video.ts lines 68-107 (lines 2-31 of getVideoAspectRatio spawn,
\* drain and await in the same way).  The child writes chunks to two bounded
\* pipes and blocks on a full one; the parent reads both pipes to their end
\* and then awaits the exit.

\* What the child writes, in order: the pipe of each chunk.
Scripts == UNION { [1 .. n -> Streams] : n \in 0 .. MaxWrites }

ToolExitCodes == ExitCodes \cup {255}

ToolInputs == { TempFilePath(FileName(n)) : n \in RandomNames }

\* The text of the i-th chunk.
ChunkText(i) == ToString(i)

\* The two reads awaited one after the other: stderr is read only once the
\* text of stdout is complete.
ReadingInTurn(t, s) == ~t.done[s] /\ (s = "stderr" => t.done["stdout"])

\* Lines 94-97: Promise.all starts both text() reads at once; each goes on
\* until its pipe ends.
Reading(t, s) == ~t.done[s]

\* Lines 73-92: Bun.spawn.
ToolSpawn ==
    /\ tool.pc = "idle"
    /\ \E inputFilePath \in ToolInputs, script \in Scripts,
          exitCode \in ToolExitCodes :
        tool' = [tool EXCEPT !.pc = "draining",
                             !.inputFilePath = inputFilePath,
                             !.script = script,
                             !.exitCode = exitCode]
    /\ UNCHANGED <<pc, handler, req, loc, disk, s3, db, outcome, hist, probe>>

\* The child writes its next chunk; a full pipe blocks it.
ChildWrite ==
    /\ tool.pc # "idle" /\ ~tool.exited
    /\ tool.next <= Len(tool.script)
    /\ LET s == tool.script[tool.next]
       IN  /\ Len(tool.pipe[s]) < PipeCapacity
           /\ tool' = [tool EXCEPT !.pipe[s] = Append(@, ChunkText(tool.next)),
                                   !.next = @ + 1]
    /\ UNCHANGED <<pc, handler, req, loc, disk, s3, db, outcome, hist, probe>>

\* The child has written everything: it exits, which closes its pipe ends.
ChildExit ==
    /\ tool.pc # "idle" /\ ~tool.exited
    /\ tool.next > Len(tool.script)
    /\ tool' = [tool EXCEPT !.exited = TRUE]
    /\ UNCHANGED <<pc, handler, req, loc, disk, s3, db, outcome, hist, probe>>

\* Lines 94-97: a text() read takes a chunk from its pipe.
ReadChunk(s) ==
    /\ tool.pc = "draining" /\ Reading(tool, s)
    /\ tool.pipe[s] # <<>>
    /\ tool' = [tool EXCEPT !.text[s] = Append(@, Head(tool.pipe[s])),
                            !.pipe[s] = Tail(@)]
    /\ UNCHANGED <<pc, handler, req, loc, disk, s3, db, outcome, hist, probe>>

\* Lines 94-97: a text() read meets the end of its pipe and resolves.
ReadEnd(s) ==
    /\ tool.pc = "draining" /\ Reading(tool, s)
    /\ tool.pipe[s] = <<>> /\ tool.exited
    /\ tool' = [tool EXCEPT !.done[s] = TRUE]
    /\ UNCHANGED <<pc, handler, req, loc, disk, s3, db, outcome, hist, probe>>

\* Lines 94-100: Promise.all resolves; the function awaits process.exited.
ToolJoin ==
    /\ tool.pc = "draining"
    /\ \A s \in Streams : tool.done[s]
    /\ tool' = [tool EXCEPT !.pc = "awaitExit"]
    /\ UNCHANGED <<pc, handler, req, loc, disk, s3, db, outcome, hist, probe>>

\* Lines 100-106: the exit code arrives; the promise settles.
ToolSettle ==
    /\ tool.pc = "awaitExit" /\ tool.exited
    /\ tool' = [tool EXCEPT
           !.pc = "settled",
           !.result = processVideoForFastStart(tool.inputFilePath, tool.exitCode,
                                               tool.text["stderr"])]
    /\ UNCHANGED <<pc, handler, req, loc, disk, s3, db, outcome, hist, probe>>

NextTool ==
    \/ ToolSpawn
    \/ ChildWrite
    \/ ChildExit
    \/ \E s \in Streams : ReadChunk(s)
    \/ \E s \in Streams : ReadEnd(s)
    \/ ToolJoin
    \/ ToolSettle

\* The child runs on its own and the event loop runs every ready callback.
FairTool ==
    /\ WF_vars(ChildWrite) /\ WF_vars(ChildExit)
    /\ \A s \in Streams : WF_vars(ReadChunk(s)) /\ WF_vars(ReadEnd(s))
    /\ WF_vars(ToolJoin) /\ WF_vars(ToolSettle)

SpecTool == Init /\ [][NextTool]_vars /\ FairTool

\* The chunks the child's script sends to pipe s, in order.
RECURSIVE WrittenTo(_, _, _)
WrittenTo(script, s, i) ==
    IF i > Len(script) THEN <<>>
    ELSE (IF script[i] = s THEN <<ChunkText(i)>> ELSE <<>>)
             \o WrittenTo(script, s, i + 1)

\* C15: whatever finite sequence of chunks the child writes to its two bounded
\* pipes, in whatever order, the invocation never stays blocked: it settles,
\* having read all the child wrote and with the child's exit code deciding the
\* result.
C15_InvocationSettles ==
    (tool.pc = "draining") ~>
        (/\ tool.pc = "settled"
         /\ tool.exited
         /\ \A s \in Streams : tool.text[s] = WrittenTo(tool.script, s, 1)
         /\ tool.result.ok = (tool.exitCode = 0))

\* The invocation settled for a child that wrote more to stderr than the pipe
\* holds before it wrote to stdout.
C15_Witness ==
    /\ tool.pc = "settled"
    /\ Len(tool.script) = MaxWrites
    /\ Len(WrittenTo(tool.script, "stderr", 1)) > PipeCapacity
    /\ tool.script[1] = "stderr" /\ tool.script[Len(tool.script)] = "stdout"

\* C16: processVideoForFastStart returns a path exactly when the child exited
\* with code 0, and that path is the input path followed by ".processed"; for
\* any other exit code it throws an error whose message carries the exit code
\* and everything the child wrote to stderr, and returns no path.
C16_PathExactlyOnExitZero ==
    tool.pc = "settled" =>
        LET c == tool.result
        IN  /\ c.ok <=> tool.exitCode = 0
            /\ c.ok =>
                   /\ c.value = tool.inputFilePath \o <<".processed">>
                   /\ EndsWith(c.value, <<".processed">>)
                   /\ c.value # tool.inputFilePath
            /\ ~c.ok =>
                   /\ "value" \notin DOMAIN c
                   /\ c.error.name = "Error"
                   /\ c.error.message =
                          <<"ffmpeg failed with exit code ",
                            ToString(tool.exitCode), ": ">>
                              \o WrittenTo(tool.script, "stderr", 1)

\* The function has thrown for a child that wrote two chunks to stderr and
\* exited with code 255.
C16_Witness ==
    /\ tool.pc = "settled"
    /\ tool.exitCode = 255 /\ ~tool.result.ok
    /\ Len(WrittenTo(tool.script, "stderr", 1)) = 2

\* --------------------------------------------- updates of the same record

Succeeded(r) == Returned(r) /\ outcome[r].ok

\* C17 as stated: when a video upload and another update of the same record
\* both succeed, the video run's update differs from the record it replaced in
\* videoURL only, and after a thumbnail upload the record holds both the new
\* videoURL and the new thumbnailURL.
C17_NoLostUpdate ==
    \A r \in Runs : \A o \in Runs \ {r} :
        (/\ handler[r] \in Handlers /\ Succeeded(r) /\ Succeeded(o)
         /\ hist[o].updated.id = hist[r].updated.id) =>
            /\ hist[r].updated =
                   [hist[r].replaced EXCEPT !.videoURL = hist[r].updated.videoURL]
            /\ handler[o] = "thumbnail" =>
                   /\ db[hist[r].updated.id].videoURL = hist[r].updated.videoURL
                   /\ db[hist[r].updated.id].thumbnailURL =
                          hist[o].updated.thumbnailURL

\* C17, amended: the video run's update writes the record as it was read at
\* the start of the run (line 25) with only videoURL replaced; it changes only
\* videoURL relative to the record at the moment of the update when no other
\* update fell between the read and the update, and otherwise it writes the
\* stale values of the other fields over that update.
C17_UpdateWritesSnapshot ==
    [][\A r \in Runs :
           (handler'[r] \in Handlers /\ hist'[r].updated # hist[r].updated) =>
               LET u == hist'[r].updated
                   v == loc[r].video
               IN  /\ db'[v.id] = u
                   /\ u.id = v.id /\ u.userID = v.userID
                   /\ u.thumbnailURL = v.thumbnailURL
                   /\ u.videoURL # v.videoURL
                   /\ hist'[r].replaced = db[v.id]
                   /\ db[v.id] = v =>
                          u = [db[v.id] EXCEPT !.videoURL = u.videoURL]
                   /\ db[v.id].thumbnailURL # v.thumbnailURL =>
                          db'[v.id].thumbnailURL # db[v.id].thumbnailURL]_vars

\* A thumbnail upload and a pipeline run have both succeeded, the thumbnail
\* upload updated the record between the run's read and the run's update, and
\* the record no longer holds the thumbnailURL.
C17_Witness ==
    \E r \in Runs : \E o \in Runs \ {r} :
        /\ Pipeline(r) /\ Succeeded(r)
        /\ handler[o] = "thumbnail" /\ Succeeded(o)
        /\ loc[r].video.thumbnailURL = NoString
        /\ hist[r].replaced = hist[o].updated
        /\ hist[o].updated.thumbnailURL # NoString
        /\ db["v1"] = hist[r].updated
        /\ db["v1"].thumbnailURL = NoString

\* ------------------------------------------ requests that are not the owner's

\* The request of run r names a record that does not exist, or comes from a
\* principal who does not own the record.
NotAuthorized(r) ==
    /\ req[r] # Undefined
    /\ req[r].videoId # NULL
    /\ validateJWT(req[r].token).ok
    /\ \/ req[r].videoId \notin DOMAIN db
       \/ db[req[r].videoId].userID # req[r].token

\* C18: a request to handlerUploadVideo or handlerUploadThumbnail for a record
\* that does not exist, or from a principal who is not its owner, fails, and no
\* step of its run writes a file, spawns a child, puts an object or updates a
\* record: the file system, the bucket and the table are as the step found
\* them.
C18_UnauthorizedChangesNothing ==
    [][\A r \in Runs :
           (Moves(r) /\ NotAuthorized(r)') =>
               /\ disk' = disk /\ s3' = s3 /\ db' = db
               /\ hist'[r].created = {} /\ hist'[r].spawned = <<>>
               /\ hist'[r].put = Undefined /\ hist'[r].updated = Undefined
               /\ pc'[r] = "returned" =>
                      /\ ~outcome'[r].ok
                      /\ outcome'[r].error.name \in
                             {"NotFoundError", "UserForbiddenError", "BadRequestError"}
                      /\ handler'[r] \in Handlers =>
                             outcome'[r].error.name # "BadRequestError"]_vars

\* bob's thumbnail upload for alice's video and a video upload for a video
\* that does not exist have both been refused.
C18_Witness ==
    \E r \in Runs : \E o \in Runs \ {r} :
        /\ handler[r] = "thumbnail" /\ Returned(r)
        /\ req[r] = [videoId |-> "v1", token |-> "bob"]
        /\ outcome[r] = Throw(Err("UserForbiddenError",
                                  <<"You are not the owner of this video">>))
        /\ handler[o] \in Handlers /\ Returned(o)
        /\ req[o].videoId = "v0"
        /\ outcome[o] = Throw(Err("NotFoundError", <<"Video not found">>))

====
